---- MODULE Spec2Model ----
(***************************************************************************)
(* Model of the command-dispatch pipeline of the aigent framework:         *)
(*   src/src/commands/base.py       CommandRegistry, command               *)
(*   src/src/ai_agent/agent.py      Agent.process_input and its helpers    *)
(*                                                                         *)
(* Text is a sequence of one-character strings.  A compiled rule is a      *)
(* sequence whose elements are either one-character literals or capture    *)
(* tokens "<u>", standing for the named group u over the class [^}].       *)
(***************************************************************************)
EXTENDS Integers, Sequences, FiniteSets, TLC

VARIABLES
    commands,         \* CommandRegistry.commands: ordered dict, as a sequence of descriptors
    command_registry, \* Agent.command_registry: "None" or "registry"
    pc,               \* position of the process_input generator
    user_input,       \* argument of process_input
    stream1,          \* raw chunks delivered by the first completion stream
    full_response,    \* accumulated buffer of process_input
    command_result,   \* value returned by _extract_command
    exec_result,      \* (result, success) returned by _execute_command
    handler_calls,    \* invocations of command.handler in this turn
    handler_outcome,  \* what the invoked handler did: returned a value or raised
    requests,         \* completion requests issued in this turn
    stream2,          \* raw chunks delivered by the second completion stream
    yielded,          \* items yielded to the caller of process_input
    exc,              \* exception that reached the caller, or "none"
    rendered,         \* what the text given to a matcher was rendered from
    other_pc,         \* position of a second process_input generator on the same event loop
    history,          \* the turns this agent has finished, oldest first
    _instance,        \* CommandRegistry._instance: None or the registry object
    _initialized,     \* _initialized as read through the registry object
    objects,          \* number of CommandRegistry objects allocated so far
    returned          \* what CommandRegistry() and get_instance() returned, in order

singleton == <<_instance, _initialized, objects, returned>>

vars == <<commands, command_registry, pc, user_input, stream1, full_response,
          command_result, exec_result, handler_calls, handler_outcome, requests,
          stream2, yielded, exc, rendered, other_pc, history, singleton>>

(***************************************************************************)
(* Bounds                                                                  *)
(***************************************************************************)
MaxChunks1 == 4
MaxChunks2 == 2
MaxRegistry == 2
MaxValueLen == 1
MaxSpanLen == 2
MaxTurns == 1
MaxConstructions == 3

(***************************************************************************)
(* Strings                                                                 *)
(***************************************************************************)
Whitespace == {" ", "\n"}

StartsWithAt(s, i, p) ==
    /\ i + Len(p) - 1 <= Len(s)
    /\ \A k \in 1..Len(p) : s[i + k - 1] = p[k]

RECURSIVE ReplaceFrom(_, _, _, _)
ReplaceFrom(s, i, old, new) ==
    IF i > Len(s) THEN <<>>
    ELSE IF StartsWithAt(s, i, old)
         THEN new \o ReplaceFrom(s, i + Len(old), old, new)
         ELSE <<s[i]>> \o ReplaceFrom(s, i + 1, old, new)

\* str.replace(old, new): every non-overlapping occurrence, left to right
Replace(s, old, new) == ReplaceFrom(s, 1, old, new)

RECURSIVE LStrip(_)
LStrip(s) == IF s # <<>> /\ Head(s) \in Whitespace THEN LStrip(Tail(s)) ELSE s

RECURSIVE RStrip(_)
RStrip(s) ==
    IF s # <<>> /\ s[Len(s)] \in Whitespace THEN RStrip(SubSeq(s, 1, Len(s) - 1)) ELSE s

\* str.strip()
Strip(s) == RStrip(LStrip(s))

RECURSIVE Concat(_)
Concat(ss) == IF ss = <<>> THEN <<>> ELSE Head(ss) \o Concat(Tail(ss))

SetMax(S) == CHOOSE n \in S : \A m \in S : m <= n
SetMin(S) == CHOOSE n \in S : \A m \in S : n <= m

(***************************************************************************)
(* Regular expressions, as far as _extract_command uses them               *)
(***************************************************************************)
VarNames == {"u", "v"}
GroupTok(v) == IF v = "u" THEN "<u>" ELSE "<v>"
GroupToks == {GroupTok(v) : v \in VarNames}
GroupName(t) == CHOOSE v \in VarNames : GroupTok(v) = t

\* re.search(r'\[\[(.*?)\]\]', text): the leftmost "[[" that is followed, with
\* no newline in between, by a "]]"; the group is the shortest such span.
SpanEnds(text, i) == {j \in (i + 2)..Len(text) : StartsWithAt(text, j, <<"]", "]">>)}
SpanAt(text, i) ==
    /\ StartsWithAt(text, i, <<"[", "[">>)
    /\ SpanEnds(text, i) # {}
    /\ \A k \in (i + 2)..(SetMin(SpanEnds(text, i)) - 1) : text[k] # "\n"
SpanStarts(text) == {i \in 1..Len(text) : SpanAt(text, i)}
SearchSpan(text) ==
    IF SpanStarts(text) = {} THEN [found |-> FALSE, group |-> <<>>]
    ELSE LET i == SetMin(SpanStarts(text))
             j == SetMin(SpanEnds(text, i))
         IN [found |-> TRUE, group |-> SubSeq(text, i + 2, j - 1)]

\* var_pattern of one descriptor (agent.py lines 126-128)
RECURSIVE SubstVars(_, _)
SubstVars(p, vs) ==
    IF vs = <<>> THEN p
    ELSE SubstVars(Replace(p, <<"{", Head(vs), "}">>, <<GroupTok(Head(vs))>>), Tail(vs))

VarPattern(metadata) ==
    SubstVars(Replace(Replace(metadata.pattern, <<"[", "[">>, <<>>), <<"]", "]">>, <<>>),
              metadata.variables)

\* re.compile raises re.error when a group name is defined twice
CompileError(rule) ==
    \E i, j \in 1..Len(rule) : i # j /\ rule[i] \in GroupToks /\ rule[i] = rule[j]

\* longest run of characters other than "}" starting at si
RECURSIVE RunLen(_, _)
RunLen(s, si) == IF si > Len(s) \/ s[si] = "}" THEN 0 ELSE 1 + RunLen(s, si + 1)

NoBindings == [v \in {} |-> <<>>]

\* mutant: a group has to capture at least one character
RECURSIVE MatchFrom_NonEmpty(_, _, _, _)
MatchFrom_NonEmpty(rule, ti, s, si) ==
    IF ti > Len(rule) THEN [ok |-> si = Len(s) + 1, b |-> NoBindings]
    ELSE IF rule[ti] \in GroupToks
    THEN LET good == {n \in 1..RunLen(s, si) : MatchFrom_NonEmpty(rule, ti + 1, s, si + n).ok}
         IN IF good = {} THEN [ok |-> FALSE, b |-> NoBindings]
            ELSE LET n == SetMax(good)
                     rest == MatchFrom_NonEmpty(rule, ti + 1, s, si + n)
                 IN [ok |-> TRUE,
                     b |-> (GroupName(rule[ti]) :> SubSeq(s, si, si + n - 1)) @@ rest.b]
    ELSE IF si <= Len(s) /\ s[si] = rule[ti]
         THEN MatchFrom_NonEmpty(rule, ti + 1, s, si + 1)
         ELSE [ok |-> FALSE, b |-> NoBindings]

\* anchored, greedy, backtracking match of rule[ti..] against s[si..]
RECURSIVE MatchFrom(_, _, _, _)
MatchFrom(rule, ti, s, si) ==
    IF ti > Len(rule) THEN [ok |-> si = Len(s) + 1, b |-> NoBindings]
    ELSE IF rule[ti] \in GroupToks
    THEN LET good == {n \in 0..RunLen(s, si) : MatchFrom(rule, ti + 1, s, si + n).ok}
         IN IF good = {} THEN [ok |-> FALSE, b |-> NoBindings]
            ELSE LET n == SetMax(good)
                     rest == MatchFrom(rule, ti + 1, s, si + n)
                 IN [ok |-> TRUE,
                     b |-> (GroupName(rule[ti]) :> SubSeq(s, si, si + n - 1)) @@ rest.b]
    ELSE IF si <= Len(s) /\ s[si] = rule[ti]
         THEN MatchFrom(rule, ti + 1, s, si + 1)
         ELSE [ok |-> FALSE, b |-> NoBindings]

\* mutant: the rule is searched for in the span, not anchored at its start
ReMatch_Search(rule, s) ==
    LET starts == {i \in 1..(Len(s) + 1) : MatchFrom(rule, 1, SubSeq(s, i, Len(s)), 1).ok}
    IN IF starts = {} THEN [ok |-> FALSE, b |-> NoBindings]
       ELSE MatchFrom(rule, 1, SubSeq(s, SetMin(starts), Len(s)), 1)

\* re.match(f"^{var_pattern}$", command_text)
ReMatch(rule, s) == MatchFrom(rule, 1, s, 1)

(***************************************************************************)
(* Descriptors and the registry (base.py)                                  *)
(***************************************************************************)
\* CommandMetadata values the application registers.  Wallet is the example
\* of examples/wallet_generation.py with a shortened pattern; WalletV2 reuses
\* its name; Twin has the pattern of Wallet; Pair repeats a placeholder.
Wallet ==
    [name |-> "generate_wallet", pattern |-> <<"[", "[", "G", "{", "u", "}", "]", "]">>,
     variables |-> <<"u">>, handler |-> "generate_wallet",
     result_prompt |-> "wallet result prompt",
     unsuccessful_prompt |-> "wallet failure prompt"]
WalletV2 ==
    [name |-> "generate_wallet", pattern |-> <<"[", "[", "H", "{", "u", "}", "]", "]">>,
     variables |-> <<"u">>, handler |-> "generate_wallet_v2",
     result_prompt |-> "wallet v2 result prompt",
     unsuccessful_prompt |-> "wallet v2 failure prompt"]
Twin ==
    [name |-> "twin", pattern |-> <<"[", "[", "G", "{", "u", "}", "]", "]">>,
     variables |-> <<"u">>, handler |-> "twin",
     result_prompt |-> "twin result prompt",
     unsuccessful_prompt |-> "twin failure prompt"]
Pair ==
    [name |-> "pair", pattern |-> <<"[", "[", "G", "{", "u", "}", "x", "{", "u", "}", "]", "]">>,
     variables |-> <<"u">>, handler |-> "pair",
     result_prompt |-> "pair result prompt",
     unsuccessful_prompt |-> "pair failure prompt"]
Split ==
    [name |-> "split", pattern |-> <<"[", "[", "G", "{", "u", "}", "_", "{", "v", "}", "]", "]">>,
     variables |-> <<"u", "v">>, handler |-> "split",
     result_prompt |-> "split result prompt",
     unsuccessful_prompt |-> "split failure prompt"]

\* a command whose pattern is written without the delimiters, and one whose
\* pattern has no placeholder
Bare ==
    [name |-> "bare", pattern |-> <<"G", "{", "u", "}">>,
     variables |-> <<"u">>, handler |-> "bare",
     result_prompt |-> "bare result prompt",
     unsuccessful_prompt |-> "bare failure prompt"]
Fixed ==
    [name |-> "fixed", pattern |-> <<"[", "[", "G", "]", "]">>,
     variables |-> <<>>, handler |-> "fixed",
     result_prompt |-> "fixed result prompt",
     unsuccessful_prompt |-> "fixed failure prompt"]

Descriptors == {Wallet, Pair}

NoneValue == [none |-> TRUE]

\* the identity of the n-th CommandRegistry object
Object(n) == [id |-> n]

\* the class once the application has obtained its registry
SingletonBuilt ==
    /\ _instance = Object(1)
    /\ _initialized = TRUE
    /\ objects = 1
    /\ returned = <<Object(1)>>

Names(cmds) == {cmds[i].name : i \in 1..Len(cmds)}
IndexOf(cmds, name) == CHOOSE i \in 1..Len(cmds) : cmds[i].name = name

\* mutant: a key that is registered again moves to the end of the dict
DictSet_MoveToEnd(cmds, metadata) ==
    SelectSeq(cmds, LAMBDA d : d.name # metadata.name) \o <<metadata>>

\* self.commands[metadata.name] = metadata: a dict keeps the position of a
\* key that is already present and appends a new key
DictSet(cmds, metadata) ==
    IF metadata.name \in Names(cmds)
    THEN [cmds EXCEPT ![IndexOf(cmds, metadata.name)] = metadata]
    ELSE Append(cmds, metadata)

\* self.commands.get(name)
GetCommand(cmds, name) ==
    IF name \in Names(cmds) THEN cmds[IndexOf(cmds, name)] ELSE NoneValue

\* mutant: the export iterates the commands from the last registered one
GetAllCommands_Reversed(cmds) ==
    [i \in 1..Len(cmds) |->
        [name |-> cmds[Len(cmds) + 1 - i].name,
         pattern |-> cmds[Len(cmds) + 1 - i].pattern,
         variables |-> cmds[Len(cmds) + 1 - i].variables]]

\* CommandRegistry.get_all_commands
GetAllCommands(cmds) ==
    [i \in 1..Len(cmds) |->
        [name |-> cmds[i].name, pattern |-> cmds[i].pattern, variables |-> cmds[i].variables]]

(***************************************************************************)
(* Pattern Matcher (Agent._extract_command)                                *)
(***************************************************************************)
NoMatch == [kind |-> "none"]
ReError == [kind |-> "re.error"]

\* mutant: the loop keeps going and the last command that matches is returned
RECURSIVE TryCommands_LastWins(_, _, _)
TryCommands_LastWins(cmds, i, command_text) ==
    IF i > Len(cmds) THEN NoMatch
    ELSE LET var_pattern == VarPattern(cmds[i])
             later == TryCommands_LastWins(cmds, i + 1, command_text)
         IN IF CompileError(var_pattern) THEN ReError
            ELSE IF later.kind # "none" THEN later
            ELSE LET match == ReMatch(var_pattern, command_text)
                 IN IF match.ok
                    THEN [kind |-> "match", name |-> cmds[i].name, variables |-> match.b]
                    ELSE NoMatch

\* the loop over self.command_registry.commands.items(), from position i
RECURSIVE TryCommands(_, _, _)
TryCommands(cmds, i, command_text) ==
    IF i > Len(cmds) THEN NoMatch
    ELSE LET var_pattern == VarPattern(cmds[i])
         IN IF CompileError(var_pattern) THEN ReError
            ELSE LET match == ReMatch(var_pattern, command_text)
                 IN IF match.ok
                    THEN [kind |-> "match", name |-> cmds[i].name, variables |-> match.b]
                    ELSE TryCommands(cmds, i + 1, command_text)

\* mutant: the matcher reports the key that follows the matching command
\* in the registry, and a name of its own after the last one
ExtractCommand_NextKey(registry, cmds, text) ==
    IF registry = "None" THEN NoMatch
    ELSE LET command_match == SearchSpan(Strip(text))
             result == TryCommands(cmds, 1, command_match.group)
             next == IndexOf(cmds, result.name) + 1
         IN IF ~command_match.found THEN NoMatch
            ELSE IF result.kind # "match" THEN result
            ELSE [result EXCEPT
                     !.name = IF next <= Len(cmds) THEN cmds[next].name ELSE "unknown"]

\* _extract_command (agent.py lines 109-139)
ExtractCommand(registry, cmds, text) ==
    IF registry = "None" THEN NoMatch
    ELSE LET command_match == SearchSpan(Strip(text))
         IN IF ~command_match.found THEN NoMatch
            ELSE TryCommands(cmds, 1, command_match.group)

(***************************************************************************)
(* Dispatcher (Agent.process_input and its helpers)                        *)
(***************************************************************************)
AgentPurpose == "purpose"
UserInputs == {"make me a wallet"}

\* contents of the chunks of the two streams; <<>> is a chunk whose delta
\* has no content (None or "")
Chunks1 == {<<>>, <<" ">>, <<"[", "[">>, <<"G">>, <<"x">>, <<"]", "]">>}
Chunks2 == {<<>>, <<"r">>, <<"s">>}

\* what the body of a handler can do: return a value or raise an Exception
HandlerResults == {<<"k">>}
HandlerErrors == {<<"e">>}
NoOutcome == [kind |-> "not called"]
HandlerOutcomes ==
    {[kind |-> "return", value |-> r] : r \in HandlerResults}
        \cup {[kind |-> "raise", value |-> e] : e \in HandlerErrors}

\* the lines of one variable in an entry of the system prompt
RECURSIVE VariableLines(_)
VariableLines(variables) ==
    IF variables = <<>> THEN <<>>
    ELSE <<"-", Head(variables)>> \o VariableLines(Tail(variables))

\* the loop `for name, cmd in commands.items()` of format_system_prompt
\* (prompt_manager.py lines 115-126): one entry per command, appended to
\* the prompt in iteration order
RECURSIVE CommandEntries(_)
CommandEntries(catalog) ==
    IF catalog = <<>> THEN <<>>
    ELSE <<"bullet", Head(catalog).name, "Pattern:">> \o Head(catalog).pattern
             \o <<"Variables:">> \o VariableLines(Head(catalog).variables)
             \o <<"Example inputs:">> \o CommandEntries(Tail(catalog))

\* SystemPromptManager.format_system_prompt(get_all_commands()): the purpose
\* followed by the catalog, one entry per command in iteration order
FormatSystemPrompt(purpose, catalog) ==
    <<"You are an AI assistant with the following purpose:", purpose,
      "Available commands:">>
        \o CommandEntries(catalog)
        \o <<"Remember: output ONLY the command pattern">>

\* messages of _get_llm_response (agent.py lines 185-188)
FirstMessages(cmds, input) ==
    [phase |-> "first",
     system |-> FormatSystemPrompt(AgentPurpose, GetAllCommands(cmds)),
     user |-> input]

\* mutant: the failure branch renders the result template as well
SecondMessages_AlwaysResult(command, result, success) ==
    [phase |-> "result", system |-> command.result_prompt,
     user |-> <<"Format this result: ">> \o result]

\* messages of _get_llm_response_with_result / _get_llm_error_response
SecondMessages(command, result, success) ==
    IF success
    THEN [phase |-> "result", system |-> command.result_prompt,
          user |-> <<"Format this result: ">> \o result]
    ELSE [phase |-> "error", system |-> command.unsuccessful_prompt,
          user |-> <<"Handle this error: ">> \o result]

\* full_response += response_chunk, for the chunks _get_llm_response yields
Accumulate(buffer, chunk) == IF chunk # <<>> THEN buffer \o chunk ELSE buffer

\* mutant: chunks without content are yielded too
Forward_All(out, chunk) == Append(out, chunk)

\* mutant: the second phase yields nothing while the stream is read
Forward_Buffered(out, chunk) == out

\* the chunks a second-phase generator yields (agent.py lines 243-245)
Forward(out, chunk) == IF chunk # <<>> THEN Append(out, chunk) ELSE out

\* yield full_response (agent.py line 93)
PlainYield(buffer) == <<buffer>>

\* mutant: the first phase is streamed live
FirstPhaseYield_Live(out, chunk) == IF chunk # <<>> THEN Append(out, chunk) ELSE out

\* the loop over the first stream has no yield (agent.py lines 77-78)
FirstPhaseYield(out, chunk) == out

\* mutant: the message of the exception is left out
HandlerResult_NoMessage(outcome) ==
    IF outcome.kind = "return"
    THEN <<outcome.value, TRUE>>
    ELSE <<<<"Error executing command: ">>, FALSE>>

\* the try/except of _execute_command (agent.py lines 163-167)
HandlerResult(outcome) ==
    IF outcome.kind = "return"
    THEN <<outcome.value, TRUE>>
    ELSE <<<<"Error executing command: ">> \o outcome.value, FALSE>>

\* _execute_command when the lookup fails (agent.py lines 156-161)
LookupFailure(registry, command_name) ==
    IF registry = "None"
    THEN <<<<"Command registry not initialized">>, FALSE>>
    ELSE <<<<"No handler registered for command: ", command_name>>, FALSE>>

Raise(e) == pc' = "raised" /\ exc' = e

\* the start of the second-phase generator chosen by process_input
\* (agent.py lines 86-91, then 220-241 or 262-283), up to its request
SecondRequest(res, command_name) ==
    IF command_registry = "None"
    THEN Raise("RuntimeError") /\ UNCHANGED requests
    ELSE IF GetCommand(commands, command_name) = NoneValue
    THEN Raise("ValueError") /\ UNCHANGED requests
    ELSE /\ requests' = Append(requests,
                SecondMessages(GetCommand(commands, command_name), res[1], res[2]))
         /\ pc' = "await2"
         /\ UNCHANGED exc

\* mutant: the second completion is requested when the handler is called,
\* not when it has finished
Dispatching_EagerRequest(command_name, variables) ==
    /\ handler_calls' = Append(handler_calls,
            [handler |-> GetCommand(commands, command_name).handler,
             variables |-> variables])
    /\ requests' = Append(requests,
            SecondMessages(GetCommand(commands, command_name), <<>>, TRUE))
    /\ pc' = "in_handler"
    /\ UNCHANGED <<exec_result, exc>>

\* _execute_command up to the call of the handler (agent.py lines 84, 156-164)
Dispatching(command_name, variables) ==
    IF command_registry = "None" \/ GetCommand(commands, command_name) = NoneValue
    THEN /\ exec_result' = LookupFailure(command_registry, command_name)
         /\ SecondRequest(LookupFailure(command_registry, command_name), command_name)
         /\ UNCHANGED handler_calls
    ELSE /\ handler_calls' = Append(handler_calls,
                [handler |-> GetCommand(commands, command_name).handler,
                 variables |-> variables])
         /\ pc' = "in_handler"
         /\ UNCHANGED <<exec_result, requests, exc>>

\* mutant: the plain text is sent through a second completion
PlainResponse_SecondCall ==
    /\ requests' = Append(requests, FirstMessages(commands, user_input))
    /\ pc' = "await2"
    /\ UNCHANGED <<exec_result, handler_calls, yielded, exc>>

\* the branch of process_input taken when _extract_command returns None
\* (agent.py lines 92-93)
PlainResponse ==
    /\ yielded' = PlainYield(full_response)
    /\ pc' = "plain"
    /\ UNCHANGED <<exec_result, handler_calls, requests, exc>>

Init ==
    /\ rendered = NoneValue
    /\ other_pc = "none"
    /\ history = <<>>
    /\ SingletonBuilt
    /\ commands = <<>>
    /\ command_registry = "None"
    /\ pc = "idle"
    /\ user_input = ""
    /\ stream1 = <<>>
    /\ full_response = <<>>
    /\ command_result = NoMatch
    /\ exec_result = NoneValue
    /\ handler_calls = <<>>
    /\ handler_outcome = NoOutcome
    /\ requests = <<>>
    /\ stream2 = <<>>
    /\ yielded = <<>>
    /\ exc = "none"

\* CommandRegistry.register, from application code; the event loop runs
\* nothing else while a handler is executing
Register(metadata) ==
    /\ pc # "in_handler"
    /\ commands' = DictSet(commands, metadata)
    /\ UNCHANGED <<command_registry, pc, user_input, stream1, full_response,
                   command_result, exec_result, handler_calls, handler_outcome,
                   requests, stream2, yielded, exc>>
    /\ UNCHANGED <<rendered, other_pc, history, singleton>>

\* Agent.initialize_commands
InitializeCommands ==
    /\ pc # "in_handler"
    /\ command_registry' = "registry"
    /\ UNCHANGED <<commands, pc, user_input, stream1, full_response,
                   command_result, exec_result, handler_calls, handler_outcome,
                   requests, stream2, yielded, exc>>
    /\ UNCHANGED <<rendered, other_pc, history, singleton>>

\* mutant: the registry check comes after the request
ProcessInput_RequestFirst(input) ==
    /\ pc = "idle"
    /\ user_input' = input
    /\ requests' = Append(requests, FirstMessages(commands, input))
    /\ IF command_registry = "None" THEN Raise("RuntimeError")
                                     ELSE pc' = "await1" /\ UNCHANGED exc
    /\ UNCHANGED <<commands, command_registry, stream1, full_response,
                   command_result, exec_result, handler_calls, handler_outcome,
                   stream2, yielded>>
    /\ UNCHANGED <<rendered, other_pc, history, singleton>>

\* mutant: the agent keeps the earlier user messages and sends the last
\* one along with the system prompt
ProcessInput_WithHistory(input) ==
    /\ pc = "idle"
    /\ user_input' = input
    /\ IF command_registry = "None"
       THEN Raise("RuntimeError") /\ UNCHANGED requests
       ELSE /\ requests' = Append(requests,
                   IF history = <<>> THEN FirstMessages(commands, input)
                   ELSE [FirstMessages(commands, input) EXCEPT
                            !.system = Append(@, history[Len(history)].user)])
            /\ pc' = "await1"
            /\ UNCHANGED exc
    /\ UNCHANGED <<commands, command_registry, stream1, full_response,
                   command_result, exec_result, handler_calls, handler_outcome,
                   stream2, yielded>>
    /\ UNCHANGED <<rendered, other_pc, history, singleton>>

\* process_input up to the first completion request (agent.py lines 72-77, 182-199)
ProcessInput(input) ==
    /\ pc = "idle"
    /\ user_input' = input
    /\ IF command_registry = "None"
       THEN Raise("RuntimeError") /\ UNCHANGED requests
       ELSE /\ requests' = Append(requests, FirstMessages(commands, input))
            /\ pc' = "await1"
            /\ UNCHANGED exc
    /\ UNCHANGED <<commands, command_registry, stream1, full_response,
                   command_result, exec_result, handler_calls, handler_outcome,
                   stream2, yielded>>
    /\ UNCHANGED <<rendered, other_pc, history, singleton>>

\* one chunk of the first stream (agent.py lines 77-78, 201-203)
FirstChunk(chunk) ==
    /\ pc = "await1"
    /\ Len(stream1) < MaxChunks1
    /\ stream1' = Append(stream1, chunk)
    /\ full_response' = Accumulate(full_response, chunk)
    /\ yielded' = FirstPhaseYield(yielded, chunk)
    /\ UNCHANGED <<commands, command_registry, pc, user_input, command_result,
                   exec_result, handler_calls, handler_outcome, requests, stream2,
                   exc>>
    /\ UNCHANGED <<rendered, other_pc, history, singleton>>

\* mutant: a failed first completion is requested once more
FirstServiceFailure_Retry ==
    /\ pc = "await1"
    /\ IF Len(requests) < 2
       THEN /\ requests' = Append(requests, FirstMessages(commands, user_input))
            /\ stream1' = <<>>
            /\ full_response' = <<>>
            /\ UNCHANGED <<pc, exc>>
       ELSE /\ Raise("ServiceFailure")
            /\ UNCHANGED <<requests, stream1, full_response>>
    /\ UNCHANGED <<commands, command_registry, user_input,
                   command_result, exec_result, handler_calls, handler_outcome,
                   stream2, yielded>>
    /\ UNCHANGED <<rendered, other_pc, history, singleton>>

\* the first completion call or its stream raises
FirstServiceFailure ==
    /\ pc = "await1"
    /\ Raise("ServiceFailure")
    /\ UNCHANGED <<commands, command_registry, user_input, stream1, full_response,
                   command_result, exec_result, handler_calls, handler_outcome,
                   requests, stream2, yielded>>
    /\ UNCHANGED <<rendered, other_pc, history, singleton>>

\* the first stream ends: matching, then either the plain response or the
\* lookup and the call of the handler (agent.py lines 81-84, 92-93)
FirstStreamEnd ==
    /\ pc = "await1"
    /\ LET result == ExtractCommand(command_registry, commands, full_response)
       IN /\ command_result' = result
          /\ IF result.kind = "re.error"
             THEN /\ Raise("re.error")
                  /\ UNCHANGED <<exec_result, handler_calls, requests, yielded>>
             ELSE IF result.kind = "none"
             THEN PlainResponse
             ELSE /\ Dispatching(result.name, result.variables)
                  /\ UNCHANGED yielded
    /\ UNCHANGED <<commands, command_registry, user_input, stream1, full_response,
                   handler_outcome, stream2>>
    /\ UNCHANGED <<rendered, other_pc, history, singleton>>

\* mutant: a command whose handler raised is taken out of the registry
HandlerDone_Unregisters(outcome) ==
    /\ pc = "in_handler"
    /\ handler_outcome' = outcome
    /\ exec_result' = HandlerResult(outcome)
    /\ SecondRequest(HandlerResult(outcome), command_result.name)
    /\ commands' = IF outcome.kind = "raise"
                   THEN SelectSeq(commands, LAMBDA d : d.name # command_result.name)
                   ELSE commands
    /\ UNCHANGED <<command_registry, user_input, stream1, full_response,
                   command_result, handler_calls, stream2, yielded>>
    /\ UNCHANGED <<rendered, other_pc, history, singleton>>

\* the handler finishes; the second completion is requested
\* (agent.py lines 164-167, 86-91)
HandlerDone(outcome) ==
    /\ pc = "in_handler"
    /\ handler_outcome' = outcome
    /\ exec_result' = HandlerResult(outcome)
    /\ SecondRequest(HandlerResult(outcome), command_result.name)
    /\ UNCHANGED <<commands, command_registry, user_input, stream1, full_response,
                   command_result, handler_calls, stream2, yielded>>
    /\ UNCHANGED <<rendered, other_pc, history, singleton>>

\* one chunk of the second stream (agent.py lines 243-245, 285-287)
SecondChunk(chunk) ==
    /\ pc = "await2"
    /\ Len(stream2) < MaxChunks2
    /\ stream2' = Append(stream2, chunk)
    /\ yielded' = Forward(yielded, chunk)
    /\ UNCHANGED <<commands, command_registry, pc, user_input, stream1,
                   full_response, command_result, exec_result, handler_calls,
                   handler_outcome, requests, exc>>
    /\ UNCHANGED <<rendered, other_pc, history, singleton>>

\* mutant: when the second completion fails the command is run once more
SecondServiceFailure_Reinvoke ==
    /\ pc = "await2"
    /\ IF Len(handler_calls) = 1
       THEN /\ handler_calls' = Append(handler_calls, handler_calls[1])
            /\ pc' = "in_handler"
            /\ UNCHANGED exc
       ELSE Raise("ServiceFailure") /\ UNCHANGED handler_calls
    /\ UNCHANGED <<commands, command_registry, user_input, stream1, full_response,
                   command_result, exec_result, handler_outcome,
                   requests, stream2, yielded>>
    /\ UNCHANGED <<rendered, other_pc, history, singleton>>

\* the second completion call or its stream raises
SecondServiceFailure ==
    /\ pc = "await2"
    /\ Raise("ServiceFailure")
    /\ UNCHANGED <<commands, command_registry, user_input, stream1, full_response,
                   command_result, exec_result, handler_calls, handler_outcome,
                   requests, stream2, yielded>>
    /\ UNCHANGED <<rendered, other_pc, history, singleton>>

\* the second stream ends and with it the generator
SecondStreamEnd ==
    /\ pc = "await2"
    /\ pc' = "done"
    /\ UNCHANGED <<commands, command_registry, user_input, stream1, full_response,
                   command_result, exec_result, handler_calls, handler_outcome,
                   requests, stream2, yielded, exc>>
    /\ UNCHANGED <<rendered, other_pc, history, singleton>>

\* the caller resumes the generator after the plain response; it ends
PlainResume ==
    /\ pc = "plain"
    /\ pc' = "done"
    /\ UNCHANGED <<commands, command_registry, user_input, stream1, full_response,
                   command_result, exec_result, handler_calls, handler_outcome,
                   requests, stream2, yielded, exc>>
    /\ UNCHANGED <<rendered, other_pc, history, singleton>>

\* the application calls process_input again: a new generator, new locals
NewTurn ==
    /\ pc \in {"done", "raised"}
    /\ pc' = "idle"
    /\ user_input' = ""
    /\ stream1' = <<>>
    /\ full_response' = <<>>
    /\ command_result' = NoMatch
    /\ exec_result' = NoneValue
    /\ handler_calls' = <<>>
    /\ handler_outcome' = NoOutcome
    /\ requests' = <<>>
    /\ stream2' = <<>>
    /\ yielded' = <<>>
    /\ exc' = "none"
    /\ UNCHANGED <<commands, command_registry>>
    /\ UNCHANGED <<rendered, other_pc, history, singleton>>

Next ==
    \/ \E metadata \in Descriptors : Register(metadata)
    \/ InitializeCommands
    \/ \E input \in UserInputs : ProcessInput(input)
    \/ \E chunk \in Chunks1 : FirstChunk(chunk)
    \/ FirstServiceFailure
    \/ FirstStreamEnd
    \/ \E outcome \in HandlerOutcomes : HandlerDone(outcome)
    \/ \E chunk \in Chunks2 : SecondChunk(chunk)
    \/ SecondServiceFailure
    \/ SecondStreamEnd
    \/ PlainResume
    \/ NewTurn

Spec == Init /\ [][Next]_vars

(***************************************************************************)
(* Cancellation: the task that consumes the generator is cancelled, or the *)
(* caller closes the generator.  The exception is thrown into the          *)
(* generator where it is suspended: at the await of a completion, at the   *)
(* fetch of a chunk, or at a yield.  The handler is called synchronously   *)
(* (agent.py line 164), so there is no suspension point inside it.         *)
(***************************************************************************)
\* mutant: the cancelled generator still matches what it has accumulated
\* and calls the handler before it ends
Cancel_AfterDispatch ==
    /\ pc \in {"await1", "plain", "await2"}
    /\ pc' = "cancelled"
    /\ exc' = "CancelledError"
    /\ LET result == ExtractCommand(command_registry, commands, full_response)
       IN handler_calls' =
              IF pc = "await1" /\ result.kind = "match"
              THEN Append(handler_calls,
                          [handler |-> GetCommand(commands, result.name).handler,
                           variables |-> result.variables])
              ELSE handler_calls
    /\ UNCHANGED <<commands, command_registry, user_input, stream1, full_response,
                   command_result, exec_result, handler_outcome, requests,
                   stream2, yielded, rendered, other_pc, history, singleton>>

\* CancelledError or GeneratorExit at a suspension point of process_input;
\* no except clause of agent.py catches either (both are BaseException)
Cancel ==
    /\ pc \in {"await1", "plain", "await2"}
    /\ pc' = "cancelled"
    /\ exc' = "CancelledError"
    /\ UNCHANGED <<commands, command_registry, user_input, stream1, full_response,
                   command_result, exec_result, handler_calls, handler_outcome,
                   requests, stream2, yielded, rendered, other_pc, history, singleton>>

\* the application starts the next turn after a cancelled one
NewTurnAfterCancel ==
    /\ pc = "cancelled"
    /\ pc' = "idle"
    /\ user_input' = ""
    /\ stream1' = <<>>
    /\ full_response' = <<>>
    /\ command_result' = NoMatch
    /\ exec_result' = NoneValue
    /\ handler_calls' = <<>>
    /\ handler_outcome' = NoOutcome
    /\ requests' = <<>>
    /\ stream2' = <<>>
    /\ yielded' = <<>>
    /\ exc' = "none"
    /\ UNCHANGED <<commands, command_registry, rendered, other_pc, history, singleton>>

NextCancel ==
    \/ Next
    \/ Cancel
    \/ NewTurnAfterCancel

SpecCancel == Init /\ [][NextCancel]_vars

(***************************************************************************)
(* Consecutive turns of one agent.  history keeps, for every finished      *)
(* turn, its user message and how it went; nothing in the agent does: a    *)
(* call of process_input is a new generator whose only inputs are its      *)
(* argument, the agent's registry and the prompt manager.  The registry    *)
(* starts with two commands; the application may register the first name   *)
(* again at any time.                                                      *)
(***************************************************************************)
TurnInputs == {"make me a wallet", "hello"}
TurnChunks1 == {<<"[", "[", "G">>, <<"]", "]">>}
TurnChunks2 == {<<"r">>}
\* descriptors the application registers under a name that is already taken
Redefinitions == {WalletV2}

InitTurns ==
    /\ rendered = NoneValue
    /\ other_pc = "none"
    /\ history = <<>>
    /\ SingletonBuilt
    /\ commands = <<Wallet, Fixed>>
    /\ command_registry = "registry"
    /\ pc = "idle"
    /\ user_input = ""
    /\ stream1 = <<>>
    /\ full_response = <<>>
    /\ command_result = NoMatch
    /\ exec_result = NoneValue
    /\ handler_calls = <<>>
    /\ handler_outcome = NoOutcome
    /\ requests = <<>>
    /\ stream2 = <<>>
    /\ yielded = <<>>
    /\ exc = "none"

\* the generator of a turn has ended; the application calls process_input
\* again later: a new generator with new locals
NextTurn ==
    /\ pc \in {"done", "raised"}
    /\ Len(history) < MaxTurns
    /\ history' = Append(history,
            [user |-> user_input, matched |-> command_result.kind,
             handler |-> handler_outcome.kind, exc |-> exc])
    /\ pc' = "idle"
    /\ user_input' = ""
    /\ stream1' = <<>>
    /\ full_response' = <<>>
    /\ command_result' = NoMatch
    /\ exec_result' = NoneValue
    /\ handler_calls' = <<>>
    /\ handler_outcome' = NoOutcome
    /\ requests' = <<>>
    /\ stream2' = <<>>
    /\ yielded' = <<>>
    /\ exc' = "none"
    /\ UNCHANGED <<commands, command_registry, rendered, other_pc, singleton>>

NextTurns ==
    \/ \E metadata \in Redefinitions : Register(metadata)
    \/ \E input \in TurnInputs : ProcessInput(input)
    \/ \E chunk \in TurnChunks1 : FirstChunk(chunk)
    \/ FirstServiceFailure
    \/ FirstStreamEnd
    \/ \E outcome \in HandlerOutcomes : HandlerDone(outcome)
    \/ \E chunk \in TurnChunks2 : SecondChunk(chunk)
    \/ SecondServiceFailure
    \/ SecondStreamEnd
    \/ PlainResume
    \/ NextTurn

SpecTurns == InitTurns /\ [][NextTurns]_vars

(***************************************************************************)
(* Two turns on one event loop.  The first is the turn of the dispatcher   *)
(* above, with generate_wallet registered and the agent initialised; the   *)
(* second is another process_input generator of which only the position    *)
(* is kept.  A coroutine runs until its next await: the handler is called  *)
(* inside the coroutine of the first turn without an await (agent.py line  *)
(* 164), so while it executes the loop resumes no other coroutine.         *)
(***************************************************************************)
InitConcurrent ==
    /\ rendered = NoneValue
    /\ other_pc = "idle"
    /\ history = <<>>
    /\ SingletonBuilt
    /\ commands = <<Wallet>>
    /\ command_registry = "registry"
    /\ pc = "idle"
    /\ user_input = ""
    /\ stream1 = <<>>
    /\ full_response = <<>>
    /\ command_result = NoMatch
    /\ exec_result = NoneValue
    /\ handler_calls = <<>>
    /\ handler_outcome = NoOutcome
    /\ requests = <<>>
    /\ stream2 = <<>>
    /\ yielded = <<>>
    /\ exc = "none"

\* the event loop is free to resume a coroutine: the thread is not inside
\* the handler of the first turn
LoopFree == pc # "in_handler"

\* the second turn: process_input is called and the first completion awaited
OtherProcessInput ==
    /\ LoopFree
    /\ other_pc = "idle"
    /\ other_pc' = "await1"
    /\ UNCHANGED <<commands, command_registry, pc, user_input, stream1, full_response,
                   command_result, exec_result, handler_calls, handler_outcome,
                   requests, stream2, yielded, exc, rendered, history, singleton>>

\* the second turn: its stream delivers and the generator is resumed
OtherChunk ==
    /\ LoopFree
    /\ other_pc = "await1"
    /\ other_pc' = "streaming"
    /\ UNCHANGED <<commands, command_registry, pc, user_input, stream1, full_response,
                   command_result, exec_result, handler_calls, handler_outcome,
                   requests, stream2, yielded, exc, rendered, history, singleton>>

\* the second turn: its stream ends and the generator finishes
OtherStreamEnd ==
    /\ LoopFree
    /\ other_pc = "streaming"
    /\ other_pc' = "done"
    /\ UNCHANGED <<commands, command_registry, pc, user_input, stream1, full_response,
                   command_result, exec_result, handler_calls, handler_outcome,
                   requests, stream2, yielded, exc, rendered, history, singleton>>

OtherTurnStep == OtherProcessInput \/ OtherChunk \/ OtherStreamEnd

NextConcurrent ==
    \/ \E input \in UserInputs : ProcessInput(input)
    \/ \E chunk \in Chunks1 : FirstChunk(chunk)
    \/ FirstStreamEnd
    \/ \E outcome \in HandlerOutcomes : HandlerDone(outcome)
    \/ \E chunk \in Chunks2 : SecondChunk(chunk)
    \/ SecondStreamEnd
    \/ PlainResume
    \/ OtherProcessInput
    \/ OtherChunk
    \/ OtherStreamEnd

SpecConcurrent == InitConcurrent /\ [][NextConcurrent]_vars

(***************************************************************************)
(* The turn that starts at Dispatching.  _execute_command and the second-  *)
(* phase generators look the command up again in whatever registry the     *)
(* agent holds at that moment; this specification starts a turn after the  *)
(* matcher has returned, with any registry and any returned name.          *)
(***************************************************************************)
LookupRegistries == {<<>>, <<Wallet>>, <<Pair>>, <<Wallet, Pair>>, <<Pair, Wallet>>}
LookupNames == {"generate_wallet", "pair"}
LookupBindings == {("u" :> <<>>), ("u" :> <<"x">>)}

InitLookup ==
    /\ rendered = NoneValue
    /\ other_pc = "none"
    /\ history = <<>>
    /\ SingletonBuilt
    /\ commands \in LookupRegistries
    /\ command_registry = "registry"
    /\ pc = "dispatching"
    /\ user_input \in UserInputs
    /\ stream1 = <<>>
    /\ full_response = <<>>
    /\ command_result \in
          {[kind |-> "match", name |-> n, variables |-> b] :
              n \in LookupNames, b \in LookupBindings}
    /\ exec_result = NoneValue
    /\ handler_calls = <<>>
    /\ handler_outcome = NoOutcome
    /\ requests = <<FirstMessages(commands, user_input)>>
    /\ stream2 = <<>>
    /\ yielded = <<>>
    /\ exc = "none"

\* process_input from the call of _execute_command (agent.py line 84)
DispatchEntry ==
    /\ pc = "dispatching"
    /\ Dispatching(command_result.name, command_result.variables)
    /\ UNCHANGED <<commands, command_registry, user_input, stream1, full_response,
                   command_result, handler_outcome, stream2, yielded>>
    /\ UNCHANGED <<rendered, other_pc, history, singleton>>

NextLookup ==
    \/ DispatchEntry
    \/ \E outcome \in HandlerOutcomes : HandlerDone(outcome)
    \/ \E chunk \in Chunks2 : SecondChunk(chunk)
    \/ SecondServiceFailure
    \/ SecondStreamEnd

SpecLookup == InitLookup /\ [][NextLookup]_vars


(***************************************************************************)
(* The Pattern Matcher on its own: a registry, one of its commands, values *)
(* for its variables, and the rendered instance wrapped in prose.          *)
(***************************************************************************)
MatchDescriptors == {Wallet, WalletV2, Twin, Pair, Split}
MatchRegistries ==
    {r \in UNION {[1..n -> MatchDescriptors] : n \in 1..MaxRegistry} :
        \A i, j \in 1..Len(r) : r[i].name = r[j].name => i = j}

\* values of variables: printable, without brackets, braces or line breaks
ValueChars == {"x", "_"}
Values == UNION {[1..n -> ValueChars] : n \in 0..MaxValueLen}
ProseBefore == {<<>>, <<"o", "k", " ">>}
ProseAfter == {<<>>, <<" ", "o", "k">>}

VarSet(metadata) == {metadata.variables[i] : i \in 1..Len(metadata.variables)}

\* the instances of a pattern: its text between the delimiters with every
\* placeholder replaced by the value of its variable
RECURSIVE RenderVars(_, _, _)
RenderVars(p, vs, value) ==
    IF vs = <<>> THEN p
    ELSE RenderVars(Replace(p, <<"{", Head(vs), "}">>, value[Head(vs)]), Tail(vs), value)

Instance(metadata, value) ==
    RenderVars(Replace(Replace(metadata.pattern, <<"[", "[">>, <<>>), <<"]", "]">>, <<>>),
               metadata.variables, value)

InitMatch ==
    /\ commands \in MatchRegistries
    /\ command_registry = "registry"
    /\ rendered \in
          UNION {{[index |-> i, name |-> commands[i].name, value |-> v] :
                     v \in [VarSet(commands[i]) -> Values]} : i \in 1..Len(commands)}
    /\ full_response \in
          {before \o <<"[", "[">> \o Instance(commands[rendered.index], rendered.value)
                  \o <<"]", "]">> \o after :
              before \in ProseBefore, after \in ProseAfter}
    /\ pc = "matching"
    /\ other_pc = "none"
    /\ history = <<>>
    /\ SingletonBuilt
    /\ user_input = ""
    /\ stream1 = <<>>
    /\ command_result = NoMatch
    /\ exec_result = NoneValue
    /\ handler_calls = <<>>
    /\ handler_outcome = NoOutcome
    /\ requests = <<>>
    /\ stream2 = <<>>
    /\ yielded = <<>>
    /\ exc = "none"

\* one call of _extract_command (agent.py lines 95-139)
MatchText ==
    /\ pc = "matching"
    /\ command_result' = ExtractCommand(command_registry, commands, full_response)
    /\ pc' = "matched"
    /\ UNCHANGED <<commands, command_registry, user_input, stream1, full_response,
                   exec_result, handler_calls, handler_outcome, requests, stream2,
                   yielded, exc, rendered, other_pc, history, singleton>>

NextMatch == MatchText

SpecMatch == InitMatch /\ [][NextMatch]_vars

(***************************************************************************)
(* The Pattern Matcher on texts with one or two delimited spans whose      *)
(* contents are arbitrary short strings, spaces and line breaks included.  *)
(***************************************************************************)
SpanChars == {"G", "x", " ", "\n"}
SpanTexts == UNION {[1..n -> SpanChars] : n \in 0..MaxSpanLen}
LaterSpans == {<<>>, <<<<"G", "x">>>>}
SpanRegistries == {<<Wallet>>, <<Fixed>>, <<Fixed, Wallet>>, <<Wallet, Pair>>}

Delimit(span) == <<"[", "[">> \o span \o <<"]", "]">>

\* the spans of a text, each in its delimiters, separated by a space
RECURSIVE SpansText(_)
SpansText(spans) ==
    IF spans = <<>> THEN <<>>
    ELSE IF Len(spans) = 1 THEN Delimit(Head(spans))
    ELSE Delimit(Head(spans)) \o <<" ">> \o SpansText(Tail(spans))

InitSpan ==
    /\ commands \in SpanRegistries
    /\ command_registry = "registry"
    /\ rendered \in {[spans |-> <<first>> \o later] : first \in SpanTexts, later \in LaterSpans}
    /\ full_response = SpansText(rendered.spans)
    /\ pc = "matching"
    /\ other_pc = "none"
    /\ history = <<>>
    /\ SingletonBuilt
    /\ user_input = ""
    /\ stream1 = <<>>
    /\ command_result = NoMatch
    /\ exec_result = NoneValue
    /\ handler_calls = <<>>
    /\ handler_outcome = NoOutcome
    /\ requests = <<>>
    /\ stream2 = <<>>
    /\ yielded = <<>>
    /\ exc = "none"

SpecSpan == InitSpan /\ [][NextMatch]_vars

(***************************************************************************)
(* CommandRegistry.extract_command of the command_registry module          *)
(* (command_registry.py lines 158-184).  The rule is built from the whole  *)
(* pattern text, delimiters included, and handed to re.search; it is       *)
(* modelled as the sequence of its characters and compiled the way the re  *)
(* module reads it: an escaped bracket is a literal, "[" opens a set that  *)
(* runs to the next "]" after its first member, a "*" after a set repeats  *)
(* it, the text of a named group opens a group and ")" closes one.         *)
(***************************************************************************)
EscOpen == "\\["
EscClose == "\\]"
GroupOpenText == <<"(", "?", "P", "<">>
GroupCloseText == <<">", "[", "^", "}", "]", "*", ")">>

\* pattern.replace('{', '(?P<').replace('}', '>[^}]*)') between \[\[ and \]\]
RegistryRule(pattern) ==
    <<EscOpen, EscOpen>>
        \o Replace(Replace(pattern, <<"{">>, GroupOpenText), <<"}">>, GroupCloseText)
        \o <<EscClose, EscClose>>

RegexError == [ok |-> FALSE, items |-> <<>>]

\* index of the "]" that ends the set whose first member is at position first
SetEnd(rx, first) ==
    LET ends == {j \in (first + 1)..Len(rx) : rx[j] = "]"}
    IN IF ends = {} THEN 0 ELSE SetMin(ends)

\* sre_parse over rx[i..] with depth groups open and the group names seen
RECURSIVE Compile(_, _, _, _)
Compile(rx, i, depth, names) ==
    IF i > Len(rx) THEN [ok |-> depth = 0, items |-> <<>>]
    ELSE IF rx[i] \in {EscOpen, EscClose}
    THEN LET rest == Compile(rx, i + 1, depth, names)
         IN [ok |-> rest.ok,
             items |-> <<[t |-> "lit", c |-> IF rx[i] = EscOpen THEN "[" ELSE "]"]>>
                           \o rest.items]
    ELSE IF rx[i] = "["
    THEN LET neg == i < Len(rx) /\ rx[i + 1] = "^"
             first == IF neg THEN i + 2 ELSE i + 1
             end == SetEnd(rx, first)
         IN IF end = 0 THEN RegexError
            ELSE LET star == end < Len(rx) /\ rx[end + 1] = "*"
                     rest == Compile(rx, IF star THEN end + 2 ELSE end + 1, depth, names)
                 IN [ok |-> rest.ok,
                     items |-> <<[t |-> "set", neg |-> neg, star |-> star,
                                  chars |-> {rx[k] : k \in first..(end - 1)}]>>
                                   \o rest.items]
    ELSE IF rx[i] = "("
    THEN IF StartsWithAt(rx, i, GroupOpenText) /\ i + 5 <= Len(rx) /\ rx[i + 5] = ">"
              /\ rx[i + 4] \notin names
         THEN LET rest == Compile(rx, i + 6, depth + 1, names \cup {rx[i + 4]})
              IN [ok |-> rest.ok,
                  items |-> <<[t |-> "open", name |-> rx[i + 4]]>> \o rest.items]
         ELSE RegexError
    ELSE IF rx[i] = ")"
    THEN IF depth = 0 THEN RegexError
         ELSE LET rest == Compile(rx, i + 1, depth - 1, names)
              IN [ok |-> rest.ok, items |-> <<[t |-> "close"]>> \o rest.items]
    ELSE LET rest == Compile(rx, i + 1, depth, names)
         IN [ok |-> rest.ok, items |-> <<[t |-> "lit", c |-> rx[i]]>> \o rest.items]

InSet(item, c) == IF item.neg THEN c \notin item.chars ELSE c \in item.chars

\* longest run of members of the set starting at si
RECURSIVE SetRun(_, _, _)
SetRun(item, s, si) ==
    IF si > Len(s) \/ ~InSet(item, s[si]) THEN 0 ELSE 1 + SetRun(item, s, si + 1)

NoItemMatch == [ok |-> FALSE, b |-> NoBindings, close |-> 0]

\* greedy, backtracking match of items[k..] at s[si..]; close is the
\* position at which the next group closes
RECURSIVE MatchItems(_, _, _, _)
MatchItems(items, k, s, si) ==
    IF k > Len(items) THEN [ok |-> TRUE, b |-> NoBindings, close |-> 0]
    ELSE IF items[k].t = "open"
    THEN LET rest == MatchItems(items, k + 1, s, si)
         IN IF ~rest.ok THEN NoItemMatch
            ELSE [ok |-> TRUE, close |-> 0,
                  b |-> (items[k].name :> SubSeq(s, si, rest.close - 1)) @@ rest.b]
    ELSE IF items[k].t = "close"
    THEN LET rest == MatchItems(items, k + 1, s, si)
         IN IF ~rest.ok THEN NoItemMatch ELSE [ok |-> TRUE, b |-> rest.b, close |-> si]
    ELSE IF items[k].t = "set" /\ items[k].star
    THEN LET good == {n \in 0..SetRun(items[k], s, si) :
                         MatchItems(items, k + 1, s, si + n).ok}
         IN IF good = {} THEN NoItemMatch
            ELSE MatchItems(items, k + 1, s, si + SetMax(good))
    ELSE IF /\ si <= Len(s)
            /\ IF items[k].t = "set" THEN InSet(items[k], s[si]) ELSE s[si] = items[k].c
         THEN MatchItems(items, k + 1, s, si + 1)
         ELSE NoItemMatch

\* re.search(rule, text).groupdict(): the leftmost position with a match
ReSearch(items, text) ==
    LET starts == {si \in 1..(Len(text) + 1) : MatchItems(items, 1, text, si).ok}
    IN IF starts = {} THEN NoItemMatch ELSE MatchItems(items, 1, text, SetMin(starts))

\* the loop of extract_command over self.commands.items(), from position i
RECURSIVE RegistryExtractFrom(_, _, _)
RegistryExtractFrom(cmds, i, text) ==
    IF i > Len(cmds) THEN NoMatch
    ELSE LET compiled == Compile(RegistryRule(cmds[i].pattern), 1, 0, {})
         IN IF ~compiled.ok THEN ReError
            ELSE LET match == ReSearch(compiled.items, text)
                 IN IF match.ok
                    THEN [kind |-> "match", name |-> cmds[i].name, variables |-> match.b]
                    ELSE RegistryExtractFrom(cmds, i + 1, text)

RegistryExtractCommand(cmds, text) == RegistryExtractFrom(cmds, 1, text)

ExtractDescriptors == {Wallet, Bare, Fixed}
ExtractRegistries ==
    {r \in UNION {[1..n -> ExtractDescriptors] : n \in 1..MaxRegistry} :
        \A i, j \in 1..Len(r) : r[i].name = r[j].name => i = j}

\* the pattern as the model is told to write it: placeholders replaced
RenderPattern(metadata, value) == RenderVars(metadata.pattern, metadata.variables, value)

InitExtract ==
    /\ commands \in ExtractRegistries
    /\ command_registry = "registry"
    /\ rendered \in
          UNION {{[index |-> i, name |-> commands[i].name, value |-> v] :
                     v \in [VarSet(commands[i]) -> Values]} : i \in 1..Len(commands)}
    /\ full_response \in
          {before \o inner \o after :
              before \in ProseBefore, after \in ProseAfter,
              inner \in {<<>>,
                         RenderPattern(commands[rendered.index], rendered.value),
                         <<"[", "[">>
                             \o RenderPattern(commands[rendered.index], rendered.value)
                             \o <<"]", "]">>}}
    /\ pc = "extracting"
    /\ other_pc = "none"
    /\ history = <<>>
    /\ SingletonBuilt
    /\ user_input = ""
    /\ stream1 = <<>>
    /\ command_result = NoMatch
    /\ exec_result = NoneValue
    /\ handler_calls = <<>>
    /\ handler_outcome = NoOutcome
    /\ requests = <<>>
    /\ stream2 = <<>>
    /\ yielded = <<>>
    /\ exc = "none"

\* one call of registry.extract_command(text)
ExtractText ==
    /\ pc = "extracting"
    /\ LET result == RegistryExtractCommand(commands, full_response)
       IN /\ command_result' = result
          /\ IF result.kind = "re.error"
             THEN Raise("re.error")
             ELSE pc' = "extracted" /\ UNCHANGED exc
    /\ UNCHANGED <<commands, command_registry, user_input, stream1, full_response,
                   exec_result, handler_calls, handler_outcome, requests, stream2,
                   yielded, rendered, other_pc, history, singleton>>

NextExtract == ExtractText

SpecExtract == InitExtract /\ [][NextExtract]_vars

(***************************************************************************)
(* Registration through the command decorator (base.py lines 145-211)      *)
(***************************************************************************)
\* a prompt template is a sequence of pieces: text and replacement fields
ExamplesField == "{examples}"
Fields == {"{examples}", "{result}"}
GoodTemplate(text) == <<text, ExamplesField>>

\* the arguments of one use of the decorator
Declaration(name, pattern, variables, result_prompt, unsuccessful_prompt) ==
    [name |-> name, pattern |-> pattern, variables |-> variables, handler |-> name,
     result_prompt |-> result_prompt, unsuccessful_prompt |-> unsuccessful_prompt,
     example_success_responses |-> <<"ok">>, example_failed_responses |-> <<"bad">>]

WalletDecl ==
    Declaration("generate_wallet", Wallet.pattern, <<"u">>,
                GoodTemplate("result"), GoodTemplate("failure"))
WalletV2Decl ==
    Declaration("generate_wallet", WalletV2.pattern, <<"u">>,
                GoodTemplate("result"), GoodTemplate("failure"))
\* a placeholder without a variable
UnboundDecl ==
    Declaration("unbound", Wallet.pattern, <<>>,
                GoodTemplate("result"), GoodTemplate("failure"))
\* a variable without a placeholder
UnusedDecl ==
    Declaration("unused", <<"[", "[", "G", "]", "]">>, <<"u">>,
                GoodTemplate("result"), GoodTemplate("failure"))
\* a result template without the examples field
NoSlotDecl ==
    Declaration("no_slot", WalletV2.pattern, <<"u">>,
                <<"result">>, GoodTemplate("failure"))
\* a failure template with a field format() is given no value for
ForeignDecl ==
    Declaration("foreign", Wallet.pattern, <<"u">>,
                GoodTemplate("result"), <<"failure", "{result}">>)
PairDecl ==
    Declaration("pair", Pair.pattern, <<"u">>,
                GoodTemplate("result"), GoodTemplate("failure"))

Declarations ==
    {WalletDecl, WalletV2Decl, UnboundDecl, UnusedDecl, NoSlotDecl, ForeignDecl, PairDecl}

\* "\n\n".join(f"{label}: {ex['result']}\nResponse:\n{ex['response']}" ...)
RECURSIVE JoinExamples(_, _)
JoinExamples(label, examples) ==
    IF examples = <<>> THEN <<>>
    ELSE <<label, Head(examples)>> \o JoinExamples(label, Tail(examples))

\* template.format(examples=text): every examples field is replaced by the
\* text; any other field raises KeyError; a template without a field is
\* returned as it is
Format(template, text) ==
    IF \E i \in 1..Len(template) : template[i] \in Fields \ {ExamplesField}
    THEN [ok |-> FALSE, error |-> "KeyError"]
    ELSE [ok |-> TRUE, value |-> Replace(template, <<ExamplesField>>, text)]

\* the body of decorator(func) up to the CommandMetadata it builds
Decorator(declaration) ==
    LET formatted_result_prompt ==
            Format(declaration.result_prompt,
                   JoinExamples("For result", declaration.example_success_responses))
        formatted_unsuccessful_prompt ==
            Format(declaration.unsuccessful_prompt,
                   JoinExamples("For error", declaration.example_failed_responses))
    IN IF ~formatted_result_prompt.ok \/ ~formatted_unsuccessful_prompt.ok
       THEN [ok |-> FALSE, error |-> "KeyError"]
       ELSE [ok |-> TRUE,
             metadata |->
                 [name |-> declaration.name, pattern |-> declaration.pattern,
                  variables |-> declaration.variables, handler |-> declaration.handler,
                  result_prompt |-> formatted_result_prompt.value,
                  unsuccessful_prompt |-> formatted_unsuccessful_prompt.value]]

\* @command(registry, ...) applied to a function: format the two templates,
\* build the metadata and register it; an exception of format() leaves the
\* module that declares the command
Decorate(declaration) ==
    /\ pc = "idle"
    /\ LET built == Decorator(declaration)
       IN IF built.ok
          THEN /\ commands' = DictSet(commands, built.metadata)
               /\ UNCHANGED <<pc, exc>>
          ELSE /\ pc' = "raised"
               /\ exc' = built.error
               /\ UNCHANGED commands
    /\ UNCHANGED <<command_registry, user_input, stream1, full_response,
                   command_result, exec_result, handler_calls, handler_outcome,
                   requests, stream2, yielded, rendered, other_pc, history, singleton>>

NextRegistry == \E declaration \in Declarations : Decorate(declaration)

SpecRegistry == Init /\ [][NextRegistry]_vars

(***************************************************************************)
(* The singleton (base.py lines 69-100): construction of the registry,     *)
(* from the state of the class after import.                               *)
(***************************************************************************)
InitSingleton ==
    /\ _instance = NoneValue
    /\ _initialized = FALSE
    /\ objects = 0
    /\ returned = <<>>
    /\ rendered = NoneValue
    /\ other_pc = "none"
    /\ history = <<>>
    /\ commands = <<>>
    /\ command_registry = "None"
    /\ pc = "idle"
    /\ user_input = ""
    /\ stream1 = <<>>
    /\ full_response = <<>>
    /\ command_result = NoMatch
    /\ exec_result = NoneValue
    /\ handler_calls = <<>>
    /\ handler_outcome = NoOutcome
    /\ requests = <<>>
    /\ stream2 = <<>>
    /\ yielded = <<>>
    /\ exc = "none"

\* mutant: __new__ allocates an object on every call; the new object reads
\* the class attribute _initialized, False, and gets an empty dict
Construct_FreshObject ==
    /\ Len(returned) < MaxConstructions
    /\ objects' = objects + 1
    /\ _instance' = Object(objects + 1)
    /\ commands' = <<>>
    /\ _initialized' = TRUE
    /\ returned' = Append(returned, Object(objects + 1))
    /\ UNCHANGED <<command_registry, pc, user_input, stream1, full_response,
                   command_result, exec_result, handler_calls, handler_outcome,
                   requests, stream2, yielded, exc, rendered, other_pc, history>>

\* CommandRegistry(): __new__ (lines 73-82), then __init__ on what it
\* returned (lines 84-88)
Construct ==
    /\ Len(returned) < MaxConstructions
    /\ IF _instance = NoneValue
       THEN /\ objects' = objects + 1
            /\ _instance' = Object(objects + 1)
       ELSE UNCHANGED <<objects, _instance>>
    /\ IF ~_initialized
       THEN /\ commands' = <<>>
            /\ _initialized' = TRUE
       ELSE UNCHANGED <<commands, _initialized>>
    /\ returned' = Append(returned, _instance')
    /\ UNCHANGED <<command_registry, pc, user_input, stream1, full_response,
                   command_result, exec_result, handler_calls, handler_outcome,
                   requests, stream2, yielded, exc, rendered, other_pc, history>>

\* CommandRegistry.get_instance() (lines 90-100)
GetInstance ==
    IF _instance = NoneValue
    THEN Construct
    ELSE /\ Len(returned) < MaxConstructions
         /\ returned' = Append(returned, _instance)
         /\ UNCHANGED <<_instance, _initialized, objects>>
         /\ UNCHANGED <<commands, command_registry, pc, user_input, stream1,
                        full_response, command_result, exec_result, handler_calls,
                        handler_outcome, requests, stream2, yielded, exc, rendered,
                        other_pc, history>>

\* @command(registry=...) on a function: the application passes a registry
\* it has obtained
DecorateOn(declaration) ==
    /\ returned # <<>>
    /\ Decorate(declaration)

NextSingleton ==
    \/ Construct
    \/ GetInstance
    \/ \E declaration \in Declarations : DecorateOn(declaration)

SpecSingleton == InitSingleton /\ [][NextSingleton]_vars

(***************************************************************************)
(* Properties                                                              *)
(***************************************************************************)
NonEmptyChunk(chunk) == chunk # <<>>
NonEmptyChunks(stream) == SelectSeq(stream, NonEmptyChunk)

\* e occurs in msg as a contiguous run
Carries(msg, e) ==
    \E i \in 1..(Len(msg) + 1) : StartsWithAt(msg, i, e)

Pieces(span) ==
    {SubSeq(span, i, j) : i \in 1..(Len(span) + 1), j \in 0..Len(span)}

IsInstance(span, metadata) ==
    \E value \in [{metadata.variables[i] : i \in 1..Len(metadata.variables)} -> Pieces(span)] :
        Instance(metadata, value) = span

\* the text has no delimited span, or its span is an instance of no
\* registered pattern
NoInstance(text, cmds) ==
    \/ ~SearchSpan(text).found
    \/ \A i \in 1..Len(cmds) : ~IsInstance(SearchSpan(text).group, cmds[i])

\* C1: a process_input call made while the registry is unset fails with
\* RuntimeError having requested no completion, invoked no handler and
\* yielded nothing.
C1_NotInitialized ==
    [][(pc = "idle" /\ command_registry = "None" /\ pc' # "idle")
        => (pc' = "raised" /\ exc' = "RuntimeError" /\ requests' = <<>>
            /\ handler_calls' = <<>> /\ yielded' = <<>>)]_vars

C1_Witness ==
    pc = "raised" /\ exc = "RuntimeError" /\ command_registry = "None" /\ requests = <<>>

\* C2: once the matcher has returned no command, the turn is at the plain
\* response or done, with exactly one completion requested and no handler
\* invoked.
C2_PlainResponse ==
    (pc \notin {"idle", "await1"} /\ command_result.kind = "none"
        /\ exc \notin {"RuntimeError", "ServiceFailure"})
    => (pc \in {"plain", "done"} /\ Len(requests) = 1 /\ handler_calls = <<>>)

C2_Witness ==
    pc = "done" /\ command_result.kind = "none" /\ full_response # <<>>
        /\ Len(requests) = 1

\* C3: when the first stream ends on a text that has no delimited span, or
\* whose span is an instance of no registered pattern, the matcher returns
\* no-match and the caller is handed exactly the concatenation of the
\* phase-1 chunks.
C3_NoMatchSafety ==
    [][(pc = "await1" /\ pc' # "await1" /\ exc' # "ServiceFailure"
            /\ NoInstance(full_response, commands))
        => (command_result'.kind = "none" /\ yielded' = <<Concat(stream1)>>)]_vars

\* C4: once the handler has raised, no exception of the handler has reached
\* the caller and a second completion has been requested on the failure
\* branch, its user message carrying the message of the exception.
C4_HandlerFailureIsolated ==
    handler_outcome.kind = "raise"
    => /\ exc \in {"none", "ServiceFailure"}
       /\ exc = "none" => pc \in {"await2", "done"}
       /\ Len(requests) = 2
       /\ requests[2].phase = "error"
       /\ Carries(requests[2].user, handler_outcome.value)

C4_Witness ==
    handler_outcome.kind = "raise" /\ pc = "done" /\ Len(requests) = 2

\* C5 as stated: a turn whose handler raised ends completed, having yielded
\* at least one non-empty chunk.
C5_AlwaysNonEmpty ==
    (handler_outcome.kind = "raise" /\ pc \in {"done", "raised"})
    => (pc = "done" /\ \E i \in 1..Len(yielded) : yielded[i] # <<>>)

\* C5 amended: a turn whose handler raised and whose second completion did
\* not fail ends having yielded exactly the chunks of that completion that
\* carry content, none of them empty; the response is non-empty exactly
\* when the stream delivered such a chunk.
C5_FailureResponse ==
    (handler_outcome.kind = "raise" /\ pc = "done")
    => /\ \A i \in 1..Len(yielded) : yielded[i] # <<>>
       /\ yielded = NonEmptyChunks(stream2)
       /\ (yielded # <<>>) <=> (\E j \in 1..Len(stream2) : stream2[j] # <<>>)

C5_Witness ==
    handler_outcome.kind = "raise" /\ pc = "done" /\ yielded # <<>>

C7_OnlyDeclaredFailures ==
    exc \in {"none", "RuntimeError", "ServiceFailure"}

\* C8: past the handler of a matching turn exactly one second completion
\* has been requested; it is the result prompt of the invoked command with
\* the wrapped result exactly when the handler returned, and the failure
\* prompt with the wrapped error exactly when it raised.
InvokedCommand == CHOOSE d \in {Wallet, WalletV2, Twin, Pair} : d.handler = handler_calls[1].handler

C8_BranchByOutcome ==
    (command_result.kind = "match" /\ pc # "in_handler")
    => /\ Len(requests) = 2
       /\ Len(handler_calls) = 1
       /\ (handler_outcome.kind = "return") <=>
             (requests[2] = [phase |-> "result",
                             system |-> InvokedCommand.result_prompt,
                             user |-> <<"Format this result: ">> \o handler_outcome.value])
       /\ (handler_outcome.kind = "raise") <=>
             (requests[2] = [phase |-> "error",
                             system |-> InvokedCommand.unsuccessful_prompt,
                             user |-> <<"Handle this error: ", "Error executing command: ">>
                                        \o handler_outcome.value])
       /\ handler_outcome.kind \in {"return", "raise"}

C8_Witness ==
    command_result.kind = "match" /\ pc = "done" /\ handler_outcome.kind = "return"

\* C9: nothing is yielded while the first stream is read or the handler
\* runs, and in a matching turn every yielded item is a chunk of the second
\* stream and none is a chunk, or the buffer, of the first.
C9_FirstPhaseHidden ==
    /\ pc \in {"await1", "in_handler"} => yielded = <<>>
    /\ command_result.kind = "match"
       => \A i \in 1..Len(yielded) :
            /\ \E j \in 1..Len(stream2) : stream2[j] = yielded[i]
            /\ yielded[i] # full_response
            /\ \A k \in 1..Len(stream1) : stream1[k] # yielded[i]

C9_Witness ==
    command_result.kind = "match" /\ pc = "done" /\ yielded # <<>>
        /\ Len(NonEmptyChunks(stream1)) >= 3

\* C10 as stated: in a matching turn the yielded items are at every moment
\* the chunks the second stream has delivered, one item per chunk, in order.
C10_EveryChunkForwarded ==
    command_result.kind = "match" => yielded = stream2

\* C10 amended: in a matching turn the yielded items are at every moment the
\* chunks with content that the second stream has delivered so far, one item
\* per such chunk, in arrival order; a chunk without content yields nothing.
C10_ContentChunksForwarded ==
    command_result.kind = "match" => yielded = NonEmptyChunks(stream2)

C10_Witness ==
    command_result.kind = "match" /\ pc = "await2" /\ Len(yielded) = 2
        /\ yielded[1] # yielded[2]

\* C11: at most two completions are requested in a turn, the first one
\* first; while the first stream is being read no second request exists, and
\* a second request exists only once the first stream has been drained into
\* the buffer, the matcher has returned a command and the handler has
\* returned or raised.
C11_Sequential ==
    /\ Len(requests) <= 2
    /\ pc \in {"await1", "in_handler"} => Len(requests) = 1
    /\ Len(requests) >= 1 => requests[1].phase = "first"
    /\ Len(requests) >= 2
       => /\ requests[2].phase \in {"result", "error"}
          /\ pc \notin {"idle", "await1", "in_handler"}
          /\ full_response = Concat(stream1)
          /\ command_result.kind = "match"
          /\ Len(handler_calls) = 1
          /\ handler_outcome.kind \in {"return", "raise"}

C11_Witness ==
    Len(requests) = 2 /\ pc = "await2" /\ stream1 # <<>> /\ stream2 # <<>>

RenderedCommand == commands[rendered.index]
RenderedSpan == Instance(RenderedCommand, rendered.value)

\* C12: for every registered command and every assignment of values to its
\* variables, the matcher applied to the rendered instance wrapped in prose
\* returns that command's name and that assignment.
C12_RoundTrip ==
    pc = "matched"
    => /\ command_result.kind = "match"
       /\ command_result.name = rendered.name
       /\ command_result.variables = rendered.value

\* the rule of a command accepts the whole span
RuleMatches(metadata, span) ==
    /\ ~CompileError(VarPattern(metadata))
    /\ ReMatch(VarPattern(metadata), span).ok

MatchingRules == {i \in 1..Len(commands) : RuleMatches(commands[i], RenderedSpan)}

\* C13: a command the matcher selects is the first one in registration order
\* whose rule matches the span, with the groups of that rule as bindings;
\* and when a rule matches and every rule before it compiles, a command is
\* selected.
C13_FirstMatchWins ==
    pc = "matched"
    => /\ command_result.kind = "match"
          => /\ MatchingRules # {}
             /\ command_result.name = commands[SetMin(MatchingRules)].name
             /\ command_result.variables =
                   ReMatch(VarPattern(commands[SetMin(MatchingRules)]), RenderedSpan).b
       /\ (/\ MatchingRules # {}
           /\ \A j \in 1..SetMin(MatchingRules) : ~CompileError(VarPattern(commands[j])))
          => command_result.kind = "match"

C13_Witness ==
    /\ pc = "matched"
    /\ Len(commands) = 2
    /\ commands[1].pattern = commands[2].pattern
    /\ rendered.index = 2
    /\ command_result.kind = "match"
    /\ command_result.name = commands[1].name

\* the names of the placeholders in a pattern
Placeholders(pattern) ==
    {pattern[i + 1] : i \in {i \in 1..(Len(pattern) - 2) :
                                pattern[i] = "{" /\ pattern[i + 2] = "}"}}

\* every placeholder has exactly one variable of its name and every variable
\* names a placeholder
Bijection(metadata) ==
    /\ Placeholders(metadata.pattern) = VarSet(metadata)
    /\ \A i, j \in 1..Len(metadata.variables) :
           metadata.variables[i] = metadata.variables[j] => i = j

\* C14: after any sequence of registrations every descriptor in the registry
\* satisfies the placeholder bijection.
C14_PlaceholderBijection ==
    \A i \in 1..Len(commands) : Bijection(commands[i])

HasExamplesField(template) == \E i \in 1..Len(template) : template[i] = ExamplesField

\* a declaration whose templates lack the examples field or whose
\* placeholders do not match its variables
Malformed(declaration) ==
    \/ ~HasExamplesField(declaration.result_prompt)
    \/ ~HasExamplesField(declaration.unsuccessful_prompt)
    \/ ~Bijection(declaration)

\* C18: the registration of a malformed declaration ends in an error and
\* leaves the registry as it was.
C18_MalformedRejected ==
    [][\A declaration \in Declarations :
          (Decorate(declaration) /\ Malformed(declaration))
          => (exc' # "none" /\ commands' = commands)]_vars

\* C15: a failure of a completion ends the turn with the exception at the
\* caller and nothing else changes; after a failure of the first completion
\* no handler has been called and no second request exists; the failed turn
\* issues no request and calls no handler afterwards; no step issues a
\* request of a phase the turn has already requested.
C15_ServiceFailureNotRetried ==
    [][/\ (exc = "none" /\ exc' = "ServiceFailure")
          => /\ pc' = "raised"
             /\ requests' = requests
             /\ handler_calls' = handler_calls
             /\ yielded' = yielded
       /\ (pc = "await1" /\ exc' = "ServiceFailure")
          => /\ handler_calls' = <<>>
             /\ Len(requests') = 1
       /\ exc = "ServiceFailure"
          => /\ pc' \in {"raised", "idle"}
             /\ requests' \in {requests, <<>>}
             /\ handler_calls' \in {handler_calls, <<>>}
       /\ Len(requests') > Len(requests)
          => \A i \in 1..Len(requests) :
                 (requests[i].phase = "first")
                     # (requests'[Len(requests')].phase = "first")]_vars

C15_Witness ==
    /\ exc = "ServiceFailure"
    /\ pc = "raised"
    /\ Len(requests) = 1
    /\ stream1 # <<>>
    /\ handler_calls = <<>>

\* C16: a turn cancelled during the first completion has called no handler,
\* and a cancelled turn calls no handler and issues no request afterwards.
C16_CancelBeforeDispatch ==
    [][/\ (pc = "await1" /\ exc' = "CancelledError")
          => /\ pc' = "cancelled"
             /\ handler_calls' = <<>>
             /\ Len(requests') = 1
             /\ yielded' = <<>>
       /\ pc = "cancelled"
          => /\ handler_calls' \in {handler_calls, <<>>}
             /\ requests' \in {requests, <<>>}]_vars

\* cancelled in the middle of a first stream that holds a whole command
C16_Witness ==
    /\ pc = "cancelled"
    /\ Len(requests) = 1
    /\ ExtractCommand(command_registry, commands, full_response).kind = "match"
    /\ handler_calls = <<>>

\* C17: while the handler of one turn is executing, another turn that has
\* not finished can take its next step.
C17_OtherTurnNotBlocked ==
    (pc = "in_handler" /\ other_pc # "done") => ENABLED OtherTurnStep

\* the names of the export, in its iteration order
ExportNames(cmds) ==
    [i \in 1..Len(GetAllCommands(cmds)) |-> GetAllCommands(cmds)[i].name]

\* the names of the entries of a system prompt, in the order of the text
PromptNames(prompt) ==
    LET bullets == {i \in 1..(Len(prompt) - 1) : prompt[i] = "bullet"}
        Nth(k) == CHOOSE i \in bullets : Cardinality({j \in bullets : j < i}) = k - 1
    IN [k \in 1..Cardinality(bullets) |-> prompt[Nth(k) + 1]]

\* C19: a registration appends the name of a new command to the export and
\* leaves the order of the export alone when the name is already there or
\* the registration fails; the export names every command of the registry
\* once, and the system prompt lists the commands in the order of the export.
C19_ExportInRegistrationOrder ==
    [][\A declaration \in Declarations :
          Decorate(declaration)
          => LET before == ExportNames(commands)
                 after == ExportNames(commands')
             IN /\ after = IF \/ pc' = "raised"
                              \/ \E i \in 1..Len(before) : before[i] = declaration.name
                            THEN before
                            ELSE Append(before, declaration.name)
                /\ \A i, j \in 1..Len(after) : after[i] = after[j] => i = j
                /\ {after[i] : i \in 1..Len(after)} = Names(commands')
                /\ PromptNames(FormatSystemPrompt(AgentPurpose, GetAllCommands(commands')))
                       = after]_vars

\* three commands, the first of them declared a second time after the others
C19_Witness ==
    /\ Len(commands) = 3
    /\ commands[1].name = "generate_wallet"
    /\ commands[1].pattern = WalletV2.pattern
    /\ ExportNames(commands) = <<"generate_wallet", "pair", "unused">>
    /\ PromptNames(FormatSystemPrompt(AgentPurpose, GetAllCommands(commands)))
           = <<"generate_wallet", "pair", "unused">>

Running == {"await1", "in_handler", "await2"}

\* C20: a step that ends a turn ends it in the plain response, in Done, or
\* with NotInitialized or ServiceFailure at the caller, and the turn has
\* yielded no more items than its second stream has chunks, or one item.
C20_EndsInTerminalState ==
    [][(pc \in Running \cup {"idle"} /\ pc' \notin Running \cup {"idle"})
          => /\ \/ pc' \in {"plain", "done"}
                \/ pc' = "raised" /\ exc' \in {"RuntimeError", "ServiceFailure"}
             /\ Len(yielded') <= Len(stream2') + 1]_vars

\* the text holds the rendered pattern of the command drawn
HoldsRenderedPattern ==
    \E i \in 1..Len(full_response) :
        StartsWithAt(full_response, i, RenderPattern(RenderedCommand, rendered.value))

\* C21: extract_command applied to a text that holds a rendered instance of
\* a registered command's pattern returns that command's name and the values
\* of its variables; in no case does the call raise.
C21_ExtractReturnsCommand ==
    pc \notin {"extracting"}
    => /\ pc = "extracted"
       /\ (HoldsRenderedPattern /\ rendered.index = 1)
          => /\ command_result.kind = "match"
             /\ command_result.name = rendered.name
             /\ command_result.variables = rendered.value

\* the span holds an instance of the pattern with at least one more
\* character before or after it
PaddedInstance(span, metadata) ==
    \E i \in 1..(Len(span) + 1), j \in 0..Len(span) :
        /\ i > 1 \/ j < Len(span)
        /\ IsInstance(SubSeq(span, i, j), metadata)

FirstSpan == rendered.spans[1]

C23_OnlyFirstSpan ==
    pc = "matched"
    => command_result = ExtractCommand(command_registry, commands, Delimit(FirstSpan))

\* C24: when the first stream ends on a text whose span is the pattern of
\* the first registered command with its variable replaced by nothing, that
\* command is selected with the variable bound to the empty string and its
\* handler is called with that binding.
C24_EmptyCapture ==
    [][(/\ pc = "await1" /\ pc' # "await1" /\ exc' # "ServiceFailure"
        /\ command_registry # "None"
        /\ commands # <<>> /\ commands[1] = Wallet
        /\ SearchSpan(Strip(full_response)).found
        /\ SearchSpan(Strip(full_response)).group = <<"G">>)
       => /\ command_result' =
                [kind |-> "match", name |-> "generate_wallet", variables |-> ("u" :> <<>>)]
          /\ pc' = "in_handler"
          /\ handler_calls' =
                <<[handler |-> "generate_wallet", variables |-> ("u" :> <<>>)]>>]_vars

C24_Witness ==
    /\ pc = "done"
    /\ command_result.kind = "match"
    /\ command_result.variables = ("u" :> <<>>)
    /\ handler_calls = <<[handler |-> "generate_wallet", variables |-> ("u" :> <<>>)]>>
    /\ handler_outcome.kind = "return"

\* the state of the turn: everything but the registry and the agent's
\* reference to it
TurnState ==
    <<pc, user_input, stream1, full_response, command_result, exec_result,
      handler_calls, handler_outcome, requests, stream2, yielded, exc>>

\* C25: every step of a turn, from the call of process_input to its end on
\* any path, leaves the registry and the agent's reference to it as they
\* were; the registry changes only in steps of the application's register.
C25_DispatchReadsOnly ==
    [][/\ TurnState' # TurnState
          => (commands' = commands /\ command_registry' = command_registry)
       /\ commands' # commands => \E metadata \in Descriptors : Register(metadata)]_vars

\* a failure-branch turn has ended and the registry still holds the
\* command whose handler raised
C25_Witness ==
    /\ pc = "done"
    /\ handler_outcome.kind = "raise"
    /\ Len(requests) = 2
    /\ command_result.name \in Names(commands)

\* C26: the first completion request of a turn, whatever turns came before
\* it, is made of the system prompt of the purpose and the current registry
\* and of the user message of this turn, and it is the only request so far.
C26_NoConversationState ==
    [][(pc = "idle" /\ pc' # "idle")
          => /\ pc' = "await1"
             /\ requests' =
                   <<[phase |-> "first",
                      system |-> FormatSystemPrompt(AgentPurpose, GetAllCommands(commands)),
                      user |-> user_input']>>]_vars

\* the first request of a turn that follows a turn with another user
\* message, a matched command and a handler that raised
C26_Witness ==
    /\ pc = "await1"
    /\ Len(requests) = 1
    /\ Len(history) = 1
    /\ history[1].handler = "raise"
    /\ history[1].user # user_input

\* C27: in a turn the handler is called at most once; the call is made in
\* the step that matched a command, with the handler the registry holds for
\* the matched name and with exactly the bindings of the match, while the
\* first request is still the only one; a failure of the second completion
\* ends the turn without another call.
C27_HandlerCalledOnce ==
    [][/\ Len(handler_calls') <= 1
       /\ (handler_calls' # handler_calls /\ handler_calls' # <<>>)
             => /\ handler_calls = <<>>
                /\ pc = "await1" /\ pc' = "in_handler"
                /\ command_result'.kind = "match"
                /\ GetCommand(commands, command_result'.name) # NoneValue
                /\ handler_calls' =
                      <<[handler |-> GetCommand(commands, command_result'.name).handler,
                         variables |-> command_result'.variables]>>
                /\ requests' = requests /\ Len(requests) = 1
       /\ Len(requests') = 2 => (handler_calls' = handler_calls \/ handler_calls' = <<>>)
       /\ (pc = "await2" /\ pc' # "await2")
             => /\ pc' \in {"done", "raised"}
                /\ handler_calls' = handler_calls]_vars

\* the second completion failed after the handler had returned: one call,
\* made with the bindings of the match
C27_Witness ==
    /\ pc = "raised"
    /\ exc = "ServiceFailure"
    /\ Len(requests) = 2
    /\ handler_outcome.kind = "return"
    /\ Len(handler_calls) = 1
    /\ handler_calls[1].variables = command_result.variables
    /\ command_result.variables # NoBindings

\* C28: the name the matcher returns is a key of the registry it matched
\* against; the lookup of the same step finds its descriptor and the
\* handler is entered, so no turn takes the branch of the failed lookup:
\* none ends in its ValueError and a second request always follows a
\* handler that ran.
C28_MatchedNameIsKey ==
    [][/\ (pc = "await1" /\ pc' # "await1" /\ command_result'.kind = "match")
             => /\ command_result'.name \in Names(commands)
                /\ GetCommand(commands, command_result'.name) # NoneValue
                /\ pc' = "in_handler"
                /\ Len(handler_calls') = 1
                /\ exc' = "none"
       /\ exc' # "ValueError"
       /\ Len(requests') = 2 => handler_outcome'.kind # "not called"]_vars

\* a turn matched a command of a registry of two and its handler has been
\* entered
C28_Witness ==
    /\ pc = "in_handler"
    /\ Len(commands) = 2
    /\ command_result.kind = "match"
    /\ command_result.name \in Names(commands)
    /\ handler_calls = <<[handler |-> GetCommand(commands, command_result.name).handler,
                          variables |-> command_result.variables]>>

\* C29: every CommandRegistry() and every get_instance() returns the one
\* object the class holds, and a construction that follows registrations
\* leaves the registered commands as they were.
C29_Singleton ==
    [][/\ objects' <= 1
       /\ \A i \in 1..Len(returned') : returned'[i] = returned'[1] /\ returned'[i] = _instance'
       /\ (Len(returned') > Len(returned) /\ returned # <<>>) => commands' = commands]_vars

\* the registry was obtained, commands were registered, and it was obtained
\* twice more
C29_Witness ==
    /\ Len(returned) = 3
    /\ Len(commands) = 2
    /\ objects = 1

\* C30: registering a descriptor under a name the registry already holds
\* raises nothing; afterwards get_command returns the new descriptor, the
\* registry has as many entries as before, and every name, the registered
\* one included, is at the position it had.
C30_ReRegistrationInPlace ==
    [][\A metadata \in Redefinitions :
          (Register(metadata) /\ metadata.name \in Names(commands))
             => /\ pc' = pc /\ exc' = exc
                /\ GetCommand(commands', metadata.name) = metadata
                /\ Len(commands') = Len(commands)
                /\ \A i \in 1..Len(commands) :
                      /\ commands'[i].name = commands[i].name
                      /\ GetAllCommands(commands')[i].name = commands[i].name
                      /\ commands[i].name # metadata.name => commands'[i] = commands[i]]_vars

\* the first of two names was registered again after a turn had matched it:
\* the handler that ran is the old one, the registry holds the new
\* descriptor, still before the second command
C30_Witness ==
    /\ pc = "await2"
    /\ handler_calls = <<[handler |-> Wallet.handler, variables |-> ("u" :> <<>>)]>>
    /\ commands = <<WalletV2, Fixed>>
    /\ GetCommand(commands, Wallet.name) = WalletV2

====
